---- MODULE Spec2Model ----
(***************************************************************************)
(* Model of the coffee-shop backend (backend/src/api.py): five routes over *)
(* one drinks table, four of them behind the requires_auth decorator, and  *)
(* the registered error handlers.  One request is handled per step.        *)
(***************************************************************************)
EXTENDS Integers, Sequences, FiniteSets, TLC

VARIABLES table, request, response

vars == <<table, request, response>>

(* ----------------------------- bounds ---------------------------------- *)

\* Largest primary key the drinks table may generate.
MaxId == 2

Ids == 1..MaxId

(* --------------------------- JSON values ------------------------------- *)

\* A JSON value of a request body field: null, a string, or a list of
\* ingredient records.
Null == [t |-> "null", s |-> "", l |-> << >>]

Str(x) == [t |-> "string", s |-> x, l |-> << >>]

List(items) == [t |-> "list", s |-> "", l |-> items]

Ingredient(name, color, parts) == [name |-> name, color |-> color, parts |-> parts]

\* The recipe of the spec's example request.
WaterRecipe == List(<<Ingredient("water", "blue", 1)>>)

\* Titles a client may send: null, the empty string, two names.
TitleValues == {Null, Str(""), Str("Water"), Str("NewName")}

\* Recipes a client may send: null, a bare string, a list of ingredients.
RecipeValues == {Null, Str("water"), WaterRecipe}

JsonValues == TitleValues \cup RecipeValues

\* json.dumps of one ingredient record.
dumps_ingredient(i) ==
    "{\"name\": \"" \o i.name \o "\", \"color\": \"" \o i.color
        \o "\", \"parts\": " \o ToString(i.parts) \o "}"

RECURSIVE dumps_items(_)
dumps_items(items) ==
    IF items = << >> THEN ""
    ELSE IF Len(items) = 1 THEN dumps_ingredient(Head(items))
    ELSE dumps_ingredient(Head(items)) \o ", " \o dumps_items(Tail(items))

\* json.dumps(value): the serialized text stored in the recipe column.
json_dumps(v) ==
    CASE v.t = "null"   -> "null"
      [] v.t = "string" -> "\"" \o v.s \o "\""
      [] v.t = "list"   -> "[" \o dumps_items(v.l) \o "]"

\* json.loads(text): the value whose serialization is the text.
json_loads(text) == CHOOSE v \in JsonValues : json_dumps(v) = text

(* ----------------------------- requests -------------------------------- *)

\* JSON objects a client may send: any subset of the keys title and recipe.
JsonObjects ==
    UNION { { [k \in D |-> IF k = "title" THEN tv ELSE rv] :
                tv \in TitleValues, rv \in RecipeValues } :
            D \in SUBSET {"title", "recipe"} }

NoData == [k \in {} |-> Null]

\* Request bodies: none at all, text that is not JSON, or a JSON object.
Bodies ==
    {[kind |-> "absent", data |-> NoData], [kind |-> "malformed", data |-> NoData]}
        \cup {[kind |-> "json", data |-> d] : d \in JsonObjects}

\* Recorded for a request whose handler never called request.get_json().
Unread == [kind |-> "unread", data |-> NoData]

Permissions == {"get:drinks-detail", "post:drinks", "patch:drinks", "delete:drinks"}

\* Permission sets carried by well-formed tokens: a manager, a barista, nobody.
PermissionSets == {Permissions, {"get:drinks-detail"}, {}}

Token(decodable, signed, expired, has_permissions, permissions) ==
    [decodable |-> decodable, signed |-> signed, expired |-> expired,
     has_permissions |-> has_permissions, permissions |-> permissions]

GoodToken(perms) == Token(TRUE, TRUE, FALSE, TRUE, perms)

Header(present, parts, scheme, token) ==
    [present |-> present, parts |-> parts, scheme |-> scheme, token |-> token]

Bearer(token) == Header(TRUE, 2, "Bearer", token)

\* Authorization header values a client may send.
Headers ==
    { Header(FALSE, 0, "", GoodToken({})),
      Header(TRUE, 2, "Token", GoodToken(Permissions)),
      Header(TRUE, 3, "Bearer", GoodToken(Permissions)),
      Bearer(Token(FALSE, TRUE, FALSE, TRUE, Permissions)),
      Bearer(Token(TRUE, FALSE, FALSE, TRUE, Permissions)),
      Bearer(Token(TRUE, TRUE, TRUE, TRUE, Permissions)),
      Bearer(Token(TRUE, TRUE, FALSE, FALSE, {})) }
        \cup {Bearer(GoodToken(P)) : P \in PermissionSets}

(* ------------------------ authorization checker ------------------------ *)

\* AuthError(error, status_code): the failure raised by the checker.
AuthError(code, description, status_code) ==
    [raised |-> TRUE, status_code |-> status_code,
     error |-> [code |-> code, description |-> description]]

Authorized == [raised |-> FALSE, status_code |-> 200,
               error |-> [code |-> "", description |-> ""]]

\* requires_auth(permission) applied to the request's Authorization header:
\* parse the header, decode and verify the token, check the permission.
requires_auth(header, permission) ==
    IF ~header.present
        THEN AuthError("missing-header", "Authorization header is expected.", 401)
    ELSE IF header.parts # 2 \/ header.scheme # "Bearer"
        THEN AuthError("malformed-header", "Authorization header must be Bearer <token>.", 401)
    ELSE IF ~header.token.decodable
        THEN AuthError("malformed-token", "Unable to decode the token.", 401)
    ELSE IF ~header.token.signed
        THEN AuthError("invalid-signature", "Signature verification failed.", 401)
    ELSE IF header.token.expired
        THEN AuthError("expired-token", "Token expired.", 401)
    ELSE IF ~header.token.has_permissions
        THEN AuthError("missing-permission-claim", "Permissions not included in token.", 401)
    ELSE IF permission \notin header.token.permissions
        THEN AuthError("insufficient-permission", "Permission not found.", 403)
    ELSE Authorized

\* Every decorator copied from the first protected route.
RequiredPermission_Copied(op) ==
    IF op = "get_drinks" THEN "" ELSE "get:drinks-detail"

\* The permission each route's decorator asks for ("" for the public route).
RequiredPermission(op) ==
    CASE op = "get_drinks"        -> ""
      [] op = "get_drinks_detail" -> "get:drinks-detail"
      [] op = "create_drink"      -> "post:drinks"
      [] op = "edit_drink"        -> "patch:drinks"
      [] op = "delete_drink"      -> "delete:drinks"

(* ---------------------------- error handlers --------------------------- *)

not_found ==
    [status |-> 404,
     body |-> [success |-> FALSE, error |-> 404, message |-> "resource not found"]]

unprocessable ==
    [status |-> 422,
     body |-> [success |-> FALSE, error |-> 422, message |-> "unprocessable"]]

bad_request ==
    [status |-> 400,
     body |-> [success |-> FALSE, error |-> 400, message |-> "bad request"]]

\* The error body returned with a fixed status.
handle_auth_error_Fixed401(e) == [status |-> 401, body |-> e.error]

handle_auth_error(e) == [status |-> e.status_code, body |-> e.error]

\* A status or exception no handler is registered for: the framework's own
\* HTML error page.
default_error(status) == [status |-> status, body |-> [html |-> status]]

\* abort(status): dispatch to the handler registered for the status.
abort(status) ==
    CASE status = 404 -> not_found
      [] status = 422 -> unprocessable
      [] status = 400 -> bad_request
      [] OTHER        -> default_error(status)

\* jsonify(payload) with the default status.
jsonify(payload) == [status |-> 200, body |-> payload]

(* ------------------------------ the table ------------------------------ *)

Row(title, recipe) == [title |-> title, recipe |-> recipe]

\* Drink.query.all(): the ids of the rows, in primary-key order.
all_drinks(t) == SelectSeq([i \in 1..MaxId |-> i], LAMBDA i : i \in DOMAIN t)

\* Drink.short(): no recipe detail.
short(id, row) == [id |-> id, title |-> row.title]

\* Drink.long(): the full recipe.
long(id, row) == [id |-> id, title |-> row.title, recipe |-> json_loads(row.recipe)]

\* Drink.insert(): the tables a successful insert of the drink may produce,
\* one per id the table may generate.  No table when the title is null
\* (the column is required) or no id is left.
insert(t, drink) ==
    IF drink.title.t # "string" THEN {}
    ELSE { [i \in DOMAIN t \cup {id} |->
               IF i = id THEN Row(drink.title.s, drink.recipe) ELSE t[i]] :
             id \in Ids \ DOMAIN t }

\* Drink.update(): the row with the id replaced.
update(t, id, row) == [t EXCEPT ![id] = row]

\* Drink.delete(): the row with the id removed.
delete(t, id) == [i \in DOMAIN t \ {id} |-> t[i]]

(* ------------------------------ handlers ------------------------------- *)

\* What a handler did: the table it left, its response, and whether it
\* called request.get_json().
Outcome(t, resp, read) == [table |-> t, response |-> resp, read |-> read]

\* request.get_json(): the parsed object, None for a request without a JSON
\* body (or 415 where the framework rejects it), 400 for text that is not JSON.
get_json(body) ==
    CASE body.kind = "json"      -> {[raised |-> FALSE, status |-> 200, none |-> FALSE]}
      [] body.kind = "malformed" -> {[raised |-> TRUE, status |-> 400, none |-> FALSE]}
      [] body.kind = "absent"    -> {[raised |-> FALSE, status |-> 200, none |-> TRUE],
                                     [raised |-> TRUE, status |-> 415, none |-> FALSE]}

\* data[key] raises TypeError on None and KeyError on a missing key.
subscriptable(j, body, key) == ~j.none /\ key \in DOMAIN body.data

\* GET /drinks without the empty-table check.
get_drinks_NoAbort(t) ==
    LET drinks == all_drinks(t) IN
    {Outcome(t, jsonify([success |-> TRUE,
         drinks |-> [n \in 1..Len(drinks) |-> short(drinks[n], t[drinks[n]])]]), FALSE)}

\* GET /drinks
get_drinks(t) ==
    LET drinks == all_drinks(t) IN
    IF Len(drinks) = 0
        THEN {Outcome(t, abort(404), FALSE)}
        ELSE {Outcome(t, jsonify([success |-> TRUE,
                  drinks |-> [n \in 1..Len(drinks) |-> short(drinks[n], t[drinks[n]])]]),
                  FALSE)}

\* GET /drinks-detail
get_drinks_detail(t) ==
    LET drinks == all_drinks(t) IN
    IF Len(drinks) = 0
        THEN {Outcome(t, abort(404), FALSE)}
        ELSE {Outcome(t, jsonify([success |-> TRUE,
                  drinks |-> [n \in 1..Len(drinks) |-> long(drinks[n], t[drinks[n]])]]),
                  FALSE)}

\* The new drink with the title serialized in place of the recipe.
new_drink_WrongField(new_title, new_recipe) ==
    [title |-> new_title, recipe |-> json_dumps(new_title)]

\* Drink(title=new_title, recipe=json.dumps(new_recipe))
new_drink(new_title, new_recipe) ==
    [title |-> new_title, recipe |-> json_dumps(new_recipe)]

\* POST /drinks
create_drink(t, body) ==
    UNION { IF j.raised THEN {Outcome(t, abort(j.status), TRUE)}
            ELSE IF ~subscriptable(j, body, "title") \/ ~subscriptable(j, body, "recipe")
                THEN {Outcome(t, default_error(500), TRUE)}
            ELSE LET new_title  == body.data["title"]
                     new_recipe == body.data["recipe"]
                     drink      == new_drink(new_title, new_recipe)
                 IN  { Outcome(t2, jsonify([success |-> TRUE,
                           drinks |-> long(CHOOSE i \in DOMAIN t2 : i \notin DOMAIN t,
                                           Row(drink.title.s, drink.recipe))]), TRUE) :
                         t2 \in insert(t, drink) }
                     \cup {Outcome(t, abort(404), TRUE)}
          : j \in get_json(body) }

\* PATCH /drinks/<id>
edit_drink(t, id, body) ==
    IF id \notin DOMAIN t THEN {Outcome(t, abort(404), FALSE)}
    ELSE UNION {
            IF j.raised THEN {Outcome(t, abort(j.status), TRUE)}
            ELSE IF ~subscriptable(j, body, "title") \/ ~subscriptable(j, body, "recipe")
                THEN {Outcome(t, default_error(500), TRUE)}
            ELSE LET new_title  == body.data["title"]
                     new_recipe == body.data["recipe"]
                     drink == Row(IF new_title # Null THEN new_title.s ELSE t[id].title,
                                  IF new_recipe # Null THEN json_dumps(new_recipe)
                                                       ELSE t[id].recipe)
                 IN  { Outcome(update(t, id, drink),
                               jsonify([success |-> TRUE, drinks |-> long(id, drink)]), TRUE),
                       Outcome(t, abort(404), TRUE) }
          : j \in get_json(body) }

\* DELETE /drinks/<id> without the lookup of the row.
delete_drink_NoLookup(t, id) ==
    { Outcome(delete(t, id), jsonify([success |-> TRUE, id |-> id]), FALSE),
      Outcome(t, abort(404), FALSE) }

\* DELETE /drinks/<id> deleting through an unfiltered query.
delete_drink_Unfiltered(t, id) ==
    IF id \notin DOMAIN t THEN {Outcome(t, abort(404), FALSE)}
    ELSE { Outcome([i \in {} |-> t[i]], jsonify([success |-> TRUE, id |-> id]), FALSE),
           Outcome(t, abort(404), FALSE) }

\* DELETE /drinks/<id>
delete_drink(t, id) ==
    IF id \notin DOMAIN t THEN {Outcome(t, abort(404), FALSE)}
    ELSE { Outcome(delete(t, id), jsonify([success |-> TRUE, id |-> id]), FALSE),
           Outcome(t, abort(404), FALSE) }

(* ------------------------------- routes -------------------------------- *)

\* The decorator on a route: the checker applied to the route's permission.
authorize(op, header) == requires_auth(header, RequiredPermission(op))

Respond(op, id, header, body, out) ==
    /\ table' = out.table
    /\ response' = out.response
    /\ request' = [op |-> op, id |-> id, header |-> header,
                   body |-> IF out.read THEN body ELSE Unread]

\* The checker raised: the handler is not entered, the error is mapped.
Denied(op, id, header, e) ==
    Respond(op, id, header, Unread, Outcome(table, handle_auth_error(e), FALSE))

GetDrinks ==
    \E header \in Headers :
        \E out \in get_drinks(table) :
            Respond("get_drinks", 0, header, Unread, out)

GetDrinksDetail ==
    \E header \in Headers :
        LET e == authorize("get_drinks_detail", header) IN
        IF e.raised THEN Denied("get_drinks_detail", 0, header, e)
        ELSE \E out \in get_drinks_detail(table) :
                Respond("get_drinks_detail", 0, header, Unread, out)

CreateDrink ==
    \E header \in Headers :
        LET e == authorize("create_drink", header) IN
        IF e.raised THEN Denied("create_drink", 0, header, e)
        ELSE \E body \in Bodies :
                \E out \in create_drink(table, body) :
                    Respond("create_drink", 0, header, body, out)

EditDrink ==
    \E header \in Headers, id \in Ids :
        LET e == authorize("edit_drink", header) IN
        IF e.raised THEN Denied("edit_drink", id, header, e)
        ELSE \E body \in Bodies :
                \E out \in edit_drink(table, id, body) :
                    Respond("edit_drink", id, header, body, out)

DeleteDrink ==
    \E header \in Headers, id \in Ids :
        LET e == authorize("delete_drink", header) IN
        IF e.raised THEN Denied("delete_drink", id, header, e)
        ELSE \E out \in delete_drink(table, id) :
                Respond("delete_drink", id, header, Unread, out)

\* db_drop_and_create_all(): the table starts empty; no request yet.
NoRequest == [op |-> "none", id |-> 0, header |-> Header(FALSE, 0, "", GoodToken({})),
              body |-> Unread]

NoResponse == [status |-> 0, body |-> [html |-> 0]]

Init ==
    /\ table = [i \in {} |-> Row("", "")]
    /\ request = NoRequest
    /\ response = NoResponse

Next == GetDrinks \/ GetDrinksDetail \/ CreateDrink \/ EditDrink \/ DeleteDrink

Spec == Init /\ [][Next]_vars

(* ------------------------- vocabulary of the claims -------------------- *)

ProtectedOps == {"get_drinks_detail", "create_drink", "edit_drink", "delete_drink"}

\* The permission the interface table gives for an operation.
ClaimPermission(op) ==
    CASE op = "get_drinks_detail" -> "get:drinks-detail"
      [] op = "create_drink"      -> "post:drinks"
      [] op = "edit_drink"        -> "patch:drinks"
      [] op = "delete_drink"      -> "delete:drinks"
      [] OTHER                    -> "none"

\* Well-formed header, valid signature, not expired, carries a permission claim.
TokenPasses(h) ==
    /\ h.present /\ h.parts = 2 /\ h.scheme = "Bearer"
    /\ h.token.decodable /\ h.token.signed /\ ~h.token.expired
    /\ h.token.has_permissions

HasPermission(req) ==
    TokenPasses(req.header) /\ ClaimPermission(req.op) \in req.header.token.permissions

IsErrorEnvelope(resp) ==
    /\ DOMAIN resp.body = {"success", "error", "message"}
    /\ resp.body.success = FALSE
    /\ resp.body.error = resp.status

Taxonomy == {400, 401, 403, 404, 422}

Rows(t) == Cardinality(DOMAIN t)

SendsBoth(req) ==
    req.body.kind = "json" /\ DOMAIN req.body.data = {"title", "recipe"}

WellFormed(req) ==
    /\ SendsBoth(req)
    /\ req.body.data["title"].t = "string" /\ req.body.data["title"].s # ""
    /\ req.body.data["recipe"].t = "list"

(* -------------------------------- C1 ----------------------------------- *)

\* C1: a request to a protected operation whose token fails validation or
\* lacks the operation's permission is answered 401 or 403 and leaves the
\* drinks table as it was.
C1_AuthBeforeHandler ==
    [][ (request'.op \in ProtectedOps /\ ~HasPermission(request'))
            => (response'.status \in {401, 403} /\ table' = table) ]_vars

C1_Witness ==
    /\ request.op = "edit_drink"
    /\ request.header = Bearer(GoodToken({"get:drinks-detail"}))
    /\ response.status = 403
    /\ request.id \in DOMAIN table

(* -------------------------------- C2 ----------------------------------- *)

\* C2: every failed request is answered with {success: false, error: status,
\* message: text} whose error field is the response status, one of
\* 400, 401, 403, 404, 422.
C2_UniformErrorBody ==
    (request.op # "none" /\ response.status # 200)
        => (IsErrorEnvelope(response) /\ response.status \in Taxonomy)

(* -------------------------------- C3 ----------------------------------- *)

\* C3: GET /drinks needs no authorization and never changes the table; it
\* answers 404 on an empty table and otherwise 200 with success true and one
\* short-form entry per row.
C3_ListSummary ==
    [][ request'.op = "get_drinks" =>
          /\ table' = table
          /\ Rows(table) = 0 => response'.status = 404
          /\ Rows(table) >= 1 =>
                /\ response'.status = 200
                /\ response'.body.success = TRUE
                /\ Len(response'.body.drinks) = Rows(table)
                /\ \A id \in DOMAIN table :
                      \E n \in 1..Len(response'.body.drinks) :
                          response'.body.drinks[n] = [id |-> id, title |-> table[id].title]
      ]_vars

C3_Witness ==
    /\ request.op = "get_drinks"
    /\ ~request.header.present
    /\ response.status = 200
    /\ Len(response.body.drinks) = 2

(* -------------------------------- C4 ----------------------------------- *)

\* C4: an authorized PATCH on an existing id whose body supplies only a title
\* succeeds with 200, sets the row's title and leaves its recipe unchanged.
C4_PartialUpdate ==
    [][ ( /\ request'.op = "edit_drink"
          /\ HasPermission(request')
          /\ request'.id \in DOMAIN table
          /\ request'.body.kind = "json"
          /\ DOMAIN request'.body.data = {"title"}
          /\ request'.body.data["title"].t = "string" )
        => ( /\ response'.status = 200
             /\ request'.id \in DOMAIN table'
             /\ table'[request'.id].title = request'.body.data["title"].s
             /\ table'[request'.id].recipe = table[request'.id].recipe )
      ]_vars

(* -------------------------------- C5 ----------------------------------- *)

\* C5: an authorized DELETE or PATCH for an id that is not in the table
\* answers 404 and leaves the table unchanged.
C5_AbsentIdNotFound ==
    [][ ( /\ request'.op \in {"delete_drink", "edit_drink"}
          /\ HasPermission(request')
          /\ request'.id \notin DOMAIN table )
        => (response'.status = 404 /\ table' = table) ]_vars

C5_Witness ==
    /\ request.op = "delete_drink"
    /\ HasPermission(request)
    /\ request.id \notin DOMAIN table
    /\ response.status = 404
    /\ Rows(table) >= 1

(* -------------------------------- C6 ----------------------------------- *)

NewIds(t, t2) == DOMAIN t2 \ DOMAIN t

\* The effect the claim gives a successful create: 200, success true, the long
\* form of the new drink, one more row with the returned id, the supplied
\* title and the serialized supplied recipe, every other row as it was.
Created(req, resp, t, t2) ==
    /\ resp.status = 200
    /\ resp.body.success = TRUE
    /\ DOMAIN resp.body.drinks = {"id", "title", "recipe"}
    /\ NewIds(t, t2) = {resp.body.drinks.id}
    /\ DOMAIN t2 = DOMAIN t \cup {resp.body.drinks.id}
    /\ Rows(t2) = Rows(t) + 1
    /\ t2[resp.body.drinks.id].title = req.body.data["title"].s
    /\ json_loads(t2[resp.body.drinks.id].recipe) = req.body.data["recipe"]
    /\ t2[resp.body.drinks.id].recipe # ""
    /\ resp.body.drinks.title = req.body.data["title"].s
    /\ resp.body.drinks.recipe = req.body.data["recipe"]
    /\ \A i \in DOMAIN t : t2[i] = t[i]

\* C6 as stated: an authorized POST with a well-formed title and recipe
\* returns 200 with the long form of a drink carrying a new id, and the table
\* then holds exactly one more row, with that id and the supplied values.
C6_CreateAlwaysSucceeds ==
    [][ (request'.op = "create_drink" /\ HasPermission(request') /\ WellFormed(request'))
            => Created(request', response', table, table') ]_vars

\* C6 as amended: such a POST either creates the drink as stated, or, when
\* the insert raises a persistence error, answers 404 and leaves the table
\* unchanged.
C6_CreateOrPersistenceError ==
    [][ (request'.op = "create_drink" /\ HasPermission(request') /\ WellFormed(request'))
            => \/ Created(request', response', table, table')
               \/ (response'.status = 404 /\ table' = table) ]_vars

C6_Witness ==
    /\ request.op = "create_drink"
    /\ WellFormed(request)
    /\ response.status = 200
    /\ Rows(table) = 2
    /\ response.body.drinks.id \in DOMAIN table
    /\ table[response.body.drinks.id].title = "Water"
    /\ table[response.body.drinks.id].recipe = json_dumps(WaterRecipe)

(* -------------------------------- C7 ----------------------------------- *)

\* C7: every stored drink has a non-empty title and a recipe that parses as
\* a list of ingredient records.
C7_StoredDrinksWellFormed ==
    \A id \in DOMAIN table :
        /\ table[id].title # ""
        /\ json_loads(table[id].recipe).t = "list"

(* -------------------------------- C8 ----------------------------------- *)

Expired(h) ==
    /\ h.present /\ h.parts = 2 /\ h.scheme = "Bearer"
    /\ h.token.decodable /\ h.token.signed /\ h.token.expired

\* C8: on a protected operation, an otherwise valid token without the
\* required permission is answered insufficient-permission with status 403,
\* an expired token expired-token with status 401, and every failure other
\* than insufficient-permission carries status 401.
C8_AuthStatuses ==
    request.op \in ProtectedOps =>
        /\ (TokenPasses(request.header) /\ ~HasPermission(request))
              => ( /\ response.status = 403
                   /\ response.body.code = "insufficient-permission" )
        /\ Expired(request.header)
              => ( /\ response.status = 401
                   /\ response.body.code = "expired-token" )
        /\ ~TokenPasses(request.header) => response.status = 401
        /\ response.status = 403 => response.body.code = "insufficient-permission"

C8_Witness ==
    /\ request.op = "delete_drink"
    /\ request.header = Bearer(GoodToken({"get:drinks-detail"}))
    /\ request.id \in DOMAIN table
    /\ response.status = 403

(* -------------------------------- C9 ----------------------------------- *)

LacksField(req) ==
    \/ req.body.kind = "absent"
    \/ req.body.kind = "json" /\ DOMAIN req.body.data # {"title", "recipe"}

\* C9: an authorized POST or PATCH whose body is absent or lacks the title or
\* the recipe ends inside the error taxonomy and leaves the table unchanged.
C9_InputShapeValidated ==
    [][ ( /\ request'.op \in {"create_drink", "edit_drink"}
          /\ HasPermission(request')
          /\ LacksField(request') )
        => (response'.status \in Taxonomy /\ table' = table) ]_vars

(* -------------------------------- C10 ---------------------------------- *)

\* C10: a successful PATCH or DELETE changes only the row with the request's
\* id; a successful DELETE removes that id and answers with it; neither GET
\* changes the table, and both answer 404 exactly on the empty table and
\* otherwise return one entry per row.
C10_FrameEffects ==
    [][ /\ (request'.op = "edit_drink" /\ response'.status = 200) =>
              /\ DOMAIN table' = DOMAIN table
              /\ request'.id \in DOMAIN table
              /\ \A i \in DOMAIN table \ {request'.id} : table'[i] = table[i]
        /\ (request'.op = "delete_drink" /\ response'.status = 200) =>
              /\ request'.id \in DOMAIN table
              /\ DOMAIN table' = DOMAIN table \ {request'.id}
              /\ \A i \in DOMAIN table' : table'[i] = table[i]
              /\ response'.body.id = request'.id
        /\ request'.op \in {"get_drinks", "get_drinks_detail"} =>
              /\ table' = table
              /\ response'.status \notin {401, 403} =>
                    /\ response'.status = (IF Rows(table) = 0 THEN 404 ELSE 200)
                    /\ response'.status = 200 =>
                          Len(response'.body.drinks) = Rows(table)
      ]_vars

C10_Witness ==
    /\ request.op = "delete_drink"
    /\ response.status = 200
    /\ response.body.id = request.id
    /\ request.id \notin DOMAIN table
    /\ Rows(table) = 1

====
